---- MODULE Spec2Model ----
(***************************************************************************)
(* Model of the SimplleNote HTTP service (src/main.go): the net/http mux   *)
(* with its three handlers, the notes table behind database/sql, and the  *)
(* requests in flight.  Handlers run concurrently, one goroutine per       *)
(* request, and a handler's SQL statement is one atomic step of the store. *)
(* What listNotes and handleNoteByID do after their statement touches      *)
(* nothing shared and is taken with it; returnID's response is a step of   *)
(* its own, so creates may be answered in any order.                       *)
(***************************************************************************)
EXTENDS Integers, Sequences, FiniteSets, TLC

(* ---------------------------------------------------------------- bounds *)

\* Largest value the notes_id_seq sequence may reach.
MaxId == 2

\* Largest reading of the store's clock.
MaxTime == 1

\* Number of requests that may be in flight at once.
MaxConc == 2

(* ------------------------------------------------------- request inputs *)

Slots == 1..MaxConc

Methods == {"GET", "POST", "DELETE", "PUT"}

Digits == <<"0", "1", "2", "3", "4", "5", "6", "7", "8", "9">>

\* The pattern strings registered in main, as sequences of characters.
PatRoot == <<"/">>

PatNotes == <<"/", "a", "p", "i", "/", "n", "o", "t", "e", "s">>

PatNoteByID == PatNotes \o <<"/">>

\* Path suffixes tried after "/api/notes/": the decimal ids the sequence
\* can hand out, an id with a leading zero, and a non-numeric one.
IdSuffixes ==
    {<<Digits[i + 1]>> : i \in 1..MaxId} \cup {<<"0", "1">>, <<"x">>}

Paths ==
    {PatRoot, PatRoot \o <<"x">>, PatNotes, PatNotes \o <<"x">>, PatNoteByID}
        \cup {PatNoteByID \o s : s \in IdSuffixes}

CtJSON == "application/json"

CtJSONCharset == "application/json; charset=utf-8"

CtForm == "application/x-www-form-urlencoded"

CtText == "text/plain; charset=utf-8"

CtHTML == "text/html; charset=utf-8"

ContentTypes == {CtJSON, CtJSONCharset, CtForm}

\* A field of a submitted body: absent, or present with a value.
Absent == [set |-> FALSE, val |-> ""]

Present(v) == [set |-> TRUE, val |-> v]

TitleFields == {Absent, Present(""), Present("T")}

BodyFields == {Absent, Present(""), Present("B")}

\* A request body: a JSON object, a urlencoded form, or text that is neither.
NoPayload == [enc |-> "none", title |-> Absent, body |-> Absent]

Payloads ==
    [enc : {"json", "form"}, title : TitleFields, body : BodyFields]
        \cup {[enc |-> "bad", title |-> Absent, body |-> Absent]}

\* Requests: only a POST to the collection carries a body the code reads.
Requests ==
    {[method |-> m, path |-> p, ctype |-> "", payload |-> NoPayload] :
        m \in Methods, p \in Paths}
    \cup
    [method : {"POST"}, path : {PatNotes}, ctype : ContentTypes, payload : Payloads]

\* The requests tried in the slots beyond the first, which run beside the
\* request in the first: the ones that change the table, a create and a
\* delete.
Background ==
    {[method |-> "POST", path |-> PatNotes, ctype |-> CtJSON,
      payload |-> [enc |-> "json", title |-> Present("T"), body |-> Present("B")]],
     [method |-> "DELETE", path |-> PatNoteByID \o <<"1">>, ctype |-> "",
      payload |-> NoPayload]}

NoRequest == [method |-> "", path |-> <<>>, ctype |-> "", payload |-> NoPayload]

(* ------------------------------------------------------------ responses *)

\* What a handler writes: status, Content-Type and a body.  The body is
\* "null", a JSON array of notes, a JSON object {"id": n}, a line of text,
\* the index page, or empty.
Response(status, ctype, kind, notes, id, text) ==
    [status |-> status, ctype |-> ctype, kind |-> kind,
     notes |-> notes, id |-> id, text |-> text]

\* net/http's http.Error: a text/plain body with the given status.
HttpError(text, status) == Response(status, CtText, "text", <<>>, 0, text)

StoreErrText == "pq: error"

DecodeErrText == "json: error"

(* ------------------------------------------------------ the Go nil slice *)

\* `var notes []Note` is the nil slice; append makes it non-nil.
NilSlice == [nil |-> TRUE, elems |-> <<>>]

\* Faulty variant: the slice is overwritten with the row instead of extended.
GoAppend_Overwrite(sl, n) == [nil |-> FALSE, elems |-> <<n>>]

GoAppend(sl, n) == [nil |-> FALSE, elems |-> Append(sl.elems, n)]

RECURSIVE AppendAll(_, _)
AppendAll(sl, rows) ==
    IF rows = <<>> THEN sl
    ELSE AppendAll(GoAppend(sl, Head(rows)), Tail(rows))

\* encoding/json of a []Note: the nil slice encodes as null, any other as
\* an array.
JSONEncodeNotes(sl) ==
    IF sl.nil
    THEN Response(200, CtJSON, "null", <<>>, 0, "")
    ELSE Response(200, CtJSON, "array", sl.elems, 0, "")

\* encoding/json of map[string]int64{"id": id}.
JSONEncodeID(id) == Response(200, CtJSON, "object", <<>>, id, "")

(* ------------------------------------------------------- request parsing *)

HasPrefix(s, p) == Len(s) >= Len(p) /\ SubSeq(s, 1, Len(p)) = p

\* r.FormValue(key): the first value of the key in the parsed form, "" when
\* there is none.  The body is parsed as a form only when the Content-Type
\* says it is urlencoded; a body that is not key=value pairs has no such key.
FormValue(r, key) ==
    IF r.ctype = CtForm /\ r.payload.enc = "form" /\ r.payload[key].set
    THEN r.payload[key].val
    ELSE ""

\* Faulty variant: the title field is not decoded.
JSONDecodeNote_NoTitle(p) ==
    IF p.enc = "json"
    THEN [err |-> FALSE, title |-> "",
          body |-> IF p.body.set THEN p.body.val ELSE ""]
    ELSE [err |-> TRUE, title |-> "", body |-> ""]

\* json.NewDecoder(r.Body).Decode(&n): a field the object lacks keeps the
\* zero value ""; text that is no JSON value is an error.
JSONDecodeNote(p) ==
    IF p.enc = "json"
    THEN [err |-> FALSE,
          title |-> IF p.title.set THEN p.title.val ELSE "",
          body |-> IF p.body.set THEN p.body.val ELSE ""]
    ELSE [err |-> TRUE, title |-> "", body |-> ""]

(* ------------------------------------------------------------- the store *)

NoteRow(id, title, body, at) ==
    [id |-> id, title |-> title, body |-> body, created_at |-> at]

DigitVal(c) == (CHOOSE i \in 1..10 : Digits[i] = c) - 1

IsDigit(c) == \E i \in 1..10 : Digits[i] = c

RECURSIVE ParseDigits(_, _)
ParseDigits(s, acc) ==
    IF s = <<>> THEN acc
    ELSE ParseDigits(Tail(s), 10 * acc + DigitVal(Head(s)))

\* The store's coercion of the text parameter $1 to the integer column id:
\* a non-empty run of decimal digits is its value, anything else an error.
PgInt(s) ==
    IF s # <<>> /\ \A i \in 1..Len(s) : IsDigit(s[i])
    THEN [ok |-> TRUE, val |-> ParseDigits(s, 0)]
    ELSE [ok |-> FALSE, val |-> 0]

RECURSIVE Perms(_)
Perms(S) ==
    IF S = {} THEN {<<>>}
    ELSE UNION {{<<x>> \o p : p \in Perms(S \ {x})} : x \in S}

\* Faulty variant: ORDER BY created_at ASC.
OrderByCreatedAtAsc(tab) ==
    {p \in Perms(tab) :
        \A i \in 1..Len(p) : \A j \in 1..Len(p) :
            i < j => p[i].created_at <= p[j].created_at}

\* SELECT ... FROM notes ORDER BY created_at DESC: every row once, in an
\* order the sort key allows (rows with equal created_at in any order).
OrderByCreatedAtDesc(tab) ==
    {p \in Perms(tab) :
        \A i \in 1..Len(p) : \A j \in 1..Len(p) :
            i < j => p[i].created_at >= p[j].created_at}

\* Faulty variant: DELETE FROM notes WHERE id <= $1.
DeleteWhereID_UpTo(tab, id) == {n \in tab : n.id > id}

\* DELETE FROM notes WHERE id = $1.
DeleteWhereID(tab, id) == {n \in tab : n.id # id}

\* INSERT INTO notes (title, body) VALUES ($1, $2) RETURNING id: id from the
\* sequence, created_at from the column default NOW().
InsertRow(id, title, body, at) == NoteRow(id, title, body, at)

(* ---------------------------------------------------------- the handlers *)

NoResponse == Response(0, "", "", <<>>, 0, "")

\* What a handler does on entry: it either writes a response at once, or
\* goes on to a statement of the store (query, insert, exec) with the
\* values it took from the request.
Reply(r) == [next |-> "respond", resp |-> r, title |-> "", body |-> "", id |-> <<>>]

Goto(next, title, body, id) ==
    [next |-> next, resp |-> NoResponse, title |-> title, body |-> body, id |-> id]

\* http.ServeMux with the patterns "/", "/api/notes" and "/api/notes/": a
\* pattern without a trailing slash matches that path alone, one with a
\* trailing slash every path it prefixes, and the longest match wins.
Mux(path) ==
    IF path = PatNotes THEN "handleNotes"
    ELSE IF HasPrefix(path, PatNoteByID) THEN "handleNoteByID"
    ELSE "handleIndex"

handleIndex(r) ==
    IF r.path # PatRoot
    THEN Reply(HttpError("404 page not found", 404))
    ELSE Reply(Response(200, CtHTML, "page", <<>>, 0, ""))

\* Faulty variant: the form is accepted only with both fields non-empty.
saveNote_Both(r) ==
    IF r.ctype # CtJSON
    THEN IF FormValue(r, "title") # "" /\ FormValue(r, "body") # ""
         THEN Goto("insert", FormValue(r, "title"), FormValue(r, "body"), <<>>)
         ELSE Reply(HttpError("bad request", 400))
    ELSE LET n == JSONDecodeNote(r.payload)
         IN  IF n.err
             THEN Reply(HttpError(DecodeErrText, 400))
             ELSE Goto("insert", n.title, n.body, <<>>)

saveNote(r) ==
    IF r.ctype # CtJSON
    THEN IF FormValue(r, "title") # "" \/ FormValue(r, "body") # ""
         THEN Goto("insert", FormValue(r, "title"), FormValue(r, "body"), <<>>)
         ELSE Reply(HttpError("bad request", 400))
    ELSE LET n == JSONDecodeNote(r.payload)
         IN  IF n.err
             THEN Reply(HttpError(DecodeErrText, 400))
             ELSE Goto("insert", n.title, n.body, <<>>)

handleNotes(r) ==
    CASE r.method = "GET" -> Goto("query", "", "", <<>>)
      [] r.method = "POST" -> saveNote(r)
      [] OTHER -> Reply(HttpError("method not allowed", 405))

\* Faulty variant: the empty id is not refused.
handleNoteByID_NoEmptyCheck(r) ==
    IF r.method # "DELETE"
    THEN Reply(HttpError("method not allowed", 405))
    ELSE Goto("exec", "", "", SubSeq(r.path, Len(PatNoteByID) + 1, Len(r.path)))

handleNoteByID(r) ==
    IF r.method # "DELETE"
    THEN Reply(HttpError("method not allowed", 405))
    ELSE LET id == SubSeq(r.path, Len(PatNoteByID) + 1, Len(r.path))
         IN  IF id = <<>>
             THEN Reply(HttpError("bad request", 400))
             ELSE Goto("exec", "", "", id)

\* The mux's dispatch of a request to its handler.
ServeHTTP(r) ==
    CASE Mux(r.path) = "handleNotes" -> handleNotes(r)
      [] Mux(r.path) = "handleNoteByID" -> handleNoteByID(r)
      [] OTHER -> handleIndex(r)

\* How listNotes's loop over the rows ends: after every row ("end"), with
\* rows.Scan failing on row at+1 ("scan"), or with rows.Next returning false
\* after `at` rows because the iteration failed ("iter").
LoopOutcomes(rows) ==
    {[kind |-> "end", at |-> Len(rows)]}
        \cup [kind : {"scan"}, at : 0..(Len(rows) - 1)]
        \cup [kind : {"iter"}, at : 0..Len(rows)]

\* listNotes after db.Query returned: the response it writes.
listNotes(queryErr, rows, o) ==
    IF queryErr THEN HttpError(StoreErrText, 500)
    ELSE IF o.kind = "scan" THEN HttpError(StoreErrText, 500)
    ELSE JSONEncodeNotes(AppendAll(NilSlice, SubSeq(rows, 1, o.at)))

\* Faulty variant: the error of Scan is ignored.
returnID_IgnoreErr(err, id) == JSONEncodeID(id)

\* returnID after QueryRow(...).Scan(&id) returned: the response it writes.
returnID(err, id) ==
    IF err THEN HttpError(StoreErrText, 500) ELSE JSONEncodeID(id)

\* handleNoteByID after db.Exec returned: the response it writes.
deleteReply(err) ==
    IF err THEN HttpError(StoreErrText, 500)
    ELSE Response(204, "", "empty", <<>>, 0, "")

(* ----------------------------------------------------------------- state *)

VARIABLES
    table,      \* the rows of the notes table
    seq,        \* last value handed out by the id column's sequence
    now,        \* the store's clock as NOW() last read it
    conn,       \* per slot: the request being handled and where its handler is
    resp,       \* the response being written to a client, if any
    maxReturned \* history: the largest id written in an {"id": n} response

vars == <<table, seq, now, conn, resp, maxReturned>>

\* A slot not handling a request.  Besides the handler's locals (title,
\* body, id, rows, err, newid) a slot keeps history of its request: fault
\* (the store reported an error to it), stmts (statements it issued), added
\* and removed (rows its statements inserted and deleted), snap (the table
\* as it was when the store ran its query).
Idle ==
    [pc |-> "idle", req |-> NoRequest, title |-> "", body |-> "", id |-> <<>>,
     rows |-> <<>>, err |-> FALSE, fault |-> FALSE, newid |-> 0,
     stmts |-> 0, added |-> {}, removed |-> {}, snap |-> {}]

NoResp ==
    [req |-> NoRequest, out |-> NoResponse, fault |-> FALSE, stmts |-> 0,
     added |-> {}, removed |-> {}, snap |-> {}]

\* The response of the request in slot record c.
Finished(c, out, fault) ==
    [req |-> c.req, out |-> out, fault |-> fault, stmts |-> c.stmts,
     added |-> c.added, removed |-> c.removed, snap |-> c.snap]

Quiet == resp = NoResp

\* Faulty variant: the id is one more than the largest id in the table.
NextVal_Reuse(last, tab) ==
    IF tab = {} THEN 1
    ELSE (CHOOSE n \in tab : \A m \in tab : m.id <= n.id).id + 1

\* nextval of the SERIAL column's sequence.
NextVal(last, tab) == last + 1

Init ==
    /\ table = {}
    /\ seq = 0
    /\ now = 0
    /\ conn = [s \in Slots |-> Idle]
    /\ resp = NoResp
    /\ maxReturned = 0

(* --------------------------------------------------------------- actions *)

\* A request arrives whose handler issues no statement: the mux runs the
\* handler and it writes its response.  Such a request reads and writes
\* nothing shared, so every interleaving of it with the requests in flight
\* is the same as taking it between them.
Answer(r) ==
    /\ Quiet
    /\ \A t \in Slots : conn[t].pc = "idle"
    /\ ServeHTTP(r).next = "respond"
    /\ resp' = [NoResp EXCEPT !.req = r, !.out = ServeHTTP(r).resp]
    /\ UNCHANGED <<table, seq, now, conn, maxReturned>>

\* A request arrives and the mux runs its handler up to the handler's
\* statement of the store.
Accept(s, r) ==
    /\ Quiet
    /\ conn[s].pc = "idle"
    /\ s > 1 => r \in Background
    /\ LET d == ServeHTTP(r)
       IN  /\ d.next # "respond"
           /\ d.next = "insert" =>
                seq + Cardinality({t \in Slots : conn[t].pc = "insert"}) < MaxId
           /\ conn' = [conn EXCEPT ![s] =
                    [Idle EXCEPT !.pc = d.next, !.req = r, !.title = d.title,
                                 !.body = d.body, !.id = d.id]]
    /\ UNCHANGED <<table, seq, now, resp, maxReturned>>

\* listNotes: db.Query, the loop over the rows and the response.  The
\* store takes the statement's snapshot and orders it, or reports an error;
\* what the handler does with the rows reads nothing shared and is part of
\* the step.
ListNotes(s) ==
    /\ Quiet
    /\ conn[s].pc = "query"
    /\ \/ \E p \in OrderByCreatedAtDesc(table) : \E o \in LoopOutcomes(p) :
            resp' = Finished([conn[s] EXCEPT !.rows = p, !.snap = table, !.stmts = @ + 1],
                             listNotes(FALSE, p, o), o.kind # "end")
       \/ resp' = Finished([conn[s] EXCEPT !.err = TRUE, !.stmts = @ + 1],
                           listNotes(TRUE, <<>>, [kind |-> "end", at |-> 0]), TRUE)
    /\ conn' = [conn EXCEPT ![s] = Idle]
    /\ UNCHANGED <<table, seq, now, maxReturned>>

\* returnID: the INSERT ... RETURNING id.  It inserts one row and returns
\* its id, or fails and inserts nothing; a failed INSERT may still have
\* drawn a value from the sequence.  The clock NOW() reads has not gone
\* back since it was last read.
InsertStmt(s) ==
    /\ Quiet
    /\ conn[s].pc = "insert"
    /\ \/ LET id == NextVal(seq, table)
              row == InsertRow(id, conn[s].title, conn[s].body, now')
          IN  /\ now' \in {t \in {now, now + 1} : t <= MaxTime}
              /\ table' = table \cup {row}
              /\ seq' = id
              /\ conn' = [conn EXCEPT
                                ![s].pc = "reply", ![s].newid = id,
                                ![s].stmts = @ + 1, ![s].added = @ \cup {row}]
       \/ /\ seq' \in {seq, seq + 1}
          /\ conn' = [conn EXCEPT ![s].pc = "reply", ![s].err = TRUE,
                                  ![s].fault = TRUE, ![s].stmts = @ + 1]
          /\ UNCHANGED <<table, now>>
    /\ UNCHANGED <<resp, maxReturned>>

\* returnID: the response.
PostReply(s) ==
    /\ Quiet
    /\ conn[s].pc = "reply"
    /\ resp' = Finished(conn[s], returnID(conn[s].err, conn[s].newid), conn[s].fault)
    /\ maxReturned' = IF resp'.out.kind = "object" /\ resp'.out.id > maxReturned
                      THEN resp'.out.id ELSE maxReturned
    /\ conn' = [conn EXCEPT ![s] = Idle]
    /\ UNCHANGED <<table, seq, now>>

\* handleNoteByID: db.Exec of the DELETE and the response.  The store
\* coerces the text parameter to the column's type and deletes the matching
\* rows, or fails and deletes nothing.
DeleteNote(s) ==
    /\ Quiet
    /\ conn[s].pc = "exec"
    /\ LET c == PgInt(conn[s].id)
       IN  \/ /\ c.ok
              /\ table' = DeleteWhereID(table, c.val)
              /\ resp' = Finished([conn[s] EXCEPT !.stmts = @ + 1,
                                                  !.removed = @ \cup (table \ table')],
                                  deleteReply(FALSE), FALSE)
           \/ /\ resp' = Finished([conn[s] EXCEPT !.err = TRUE, !.stmts = @ + 1],
                                  deleteReply(TRUE), TRUE)
              /\ UNCHANGED table
    /\ conn' = [conn EXCEPT ![s] = Idle]
    /\ UNCHANGED <<seq, now, maxReturned>>

\* The response has gone out to the client.
Sent ==
    /\ ~Quiet
    /\ resp' = NoResp
    /\ UNCHANGED <<table, seq, now, conn, maxReturned>>

Next ==
    \/ \E r \in Requests : Answer(r)
    \/ \E s \in Slots : \E r \in Requests : Accept(s, r)
    \/ \E s \in Slots : ListNotes(s)
    \/ \E s \in Slots : InsertStmt(s)
    \/ \E s \in Slots : PostReply(s)
    \/ \E s \in Slots : DeleteNote(s)
    \/ Sent

Spec == Init /\ [][Next]_vars

(* ------------------------------------------------------------ properties *)

Answered == resp # NoResp

IsList(q) == q.req.method = "GET" /\ q.req.path = PatNotes

IsCreate(q) == q.req.method = "POST" /\ q.req.path = PatNotes

IsDelete(q) == q.req.method = "DELETE" /\ HasPrefix(q.req.path, PatNoteByID)

\* A POST whose body is JSON and whose Content-Type is application/json.
IsJSONCreate(q) ==
    IsCreate(q) /\ q.req.ctype = CtJSON /\ q.req.payload.enc = "json"

\* A POST whose body is a urlencoded form and whose Content-Type says so.
IsFormCreate(q) ==
    IsCreate(q) /\ q.req.ctype = CtForm /\ q.req.payload.enc = "form"

\* The value a submitted field stands for: "" when the field is absent.
FieldVal(f) == IF f.set THEN f.val ELSE ""

NonEmpty(f) == f.set /\ f.val # ""

Range(sq) == {sq[i] : i \in 1..Len(sq)}

\* The response reports the id of the one row the request inserted, and
\* the row holds the submitted title and body.
StoredAsSubmitted(q) ==
    /\ q.out.status = 200
    /\ q.out.ctype = CtJSON
    /\ q.out.kind = "object"
    /\ q.stmts = 1
    /\ q.removed = {}
    /\ Cardinality(q.added) = 1
    /\ \A n \in q.added :
        /\ n.id = q.out.id
        /\ n.id >= 1
        /\ n.title = FieldVal(q.req.payload.title)
        /\ n.body = FieldVal(q.req.payload.body)

\* Slot s's INSERT is run by the store in this step.
Inserts(s) == conn[s].pc = "insert" /\ conn'[s].pc = "reply"

\* Slot s's DELETE is run by the store in this step and is answered.
Deletes(s) == conn[s].pc = "exec" /\ conn'[s].pc = "idle"

\* C1: a list of an empty table, the store reporting no error, is answered
\* 200 with Content-Type application/json and the empty JSON array.
C1_EmptyListIsEmptyArray ==
    (Answered /\ IsList(resp) /\ ~resp.fault /\ resp.snap = {}) =>
        /\ resp.out.status = 200
        /\ resp.out.ctype = CtJSON
        /\ resp.out.kind = "array"
        /\ resp.out.notes = <<>>

\* C2: a list the store serves without error is answered 200 with exactly
\* the rows of the table as the query found it, each once, each with an id
\* and a created_at, ordered by created_at descending.
C2_ListReturnsTable ==
    (Answered /\ IsList(resp) /\ ~resp.fault) =>
        /\ resp.out.status = 200
        /\ resp.out.ctype = CtJSON
        /\ Range(resp.out.notes) = resp.snap
        /\ Len(resp.out.notes) = Cardinality(resp.snap)
        /\ \A i \in 1..Len(resp.out.notes) :
            /\ resp.out.notes[i].id >= 1
            /\ resp.out.notes[i].created_at \in 0..MaxTime
            /\ \A j \in 1..Len(resp.out.notes) :
                (i < j /\ resp.out.notes[i].created_at # resp.out.notes[j].created_at)
                    => resp.out.notes[i].created_at > resp.out.notes[j].created_at

\* Two notes created at distinct times are listed, newest first, from a
\* table no statement has changed since the query.
C2_Witness ==
    /\ Answered /\ IsList(resp) /\ ~resp.fault
    /\ resp.snap = table
    /\ Len(resp.out.notes) = 2
    /\ resp.out.notes[1].created_at > resp.out.notes[2].created_at
    /\ resp.out.notes[1].id > resp.out.notes[2].id

\* C3: a form-encoded create is answered 400, having issued no statement,
\* exactly when neither title nor body is present and non-empty; otherwise,
\* unless the store fails, it inserts one note with the submitted title and
\* body and answers {"id": <its id>}.
C3_FormCreate ==
    (Answered /\ IsFormCreate(resp)) =>
        LET none == ~NonEmpty(resp.req.payload.title)
                        /\ ~NonEmpty(resp.req.payload.body)
        IN  /\ (resp.out.status = 400) <=> none
            /\ resp.out.status = 400 =>
                    resp.stmts = 0 /\ resp.added = {} /\ resp.removed = {}
            /\ (~none /\ ~resp.fault) => StoredAsSubmitted(resp)

\* A form with a title and no body has been stored while the table held a
\* note already.
C3_Witness ==
    /\ Answered /\ IsFormCreate(resp)
    /\ resp.req.payload.title = Present("T")
    /\ resp.req.payload.body = Absent
    /\ resp.out.status = 200
    /\ resp.added # {}
    /\ resp.added \subseteq table
    /\ Cardinality(table) = 2

\* C4: a DELETE the store runs without error on an id that matches no row
\* is answered 204 and leaves the table as it was; after any DELETE no row
\* has its id, so a DELETE of the same id right after it is such a one and
\* leaves the table as the first left it.
C4_DeleteAbsentIsNoOp ==
    /\ [](Answered /\ IsDelete(resp) /\ ~resp.fault /\ resp.stmts = 1
            => (resp.out.status = 204 /\ resp.out.kind = "empty"))
    /\ [][\A s \in Slots :
            (Deletes(s) /\ ~resp'.fault) =>
                LET id == PgInt(conn[s].id).val
                IN  /\ (\A n \in table : n.id # id) => table' = table
                    /\ \A n \in table' : n.id # id]_vars

\* The id of a note that was created, returned and since deleted has been
\* deleted again, the second DELETE removing nothing and answered 204, with
\* another note left in the table.
C4_Witness ==
    /\ Answered /\ IsDelete(resp) /\ ~resp.fault
    /\ resp.removed = {}
    /\ resp.out.status = 204
    /\ PgInt(SubSeq(resp.req.path, Len(PatNoteByID) + 1, Len(resp.req.path))).val
            = maxReturned
    /\ maxReturned >= 1
    /\ table # {}

\* C5 as stated: a create with a JSON body and one with a form body of the
\* same title and body each store one note with that title and body and
\* return its id, ids increasing in the order of creation.
C5_JSONAndFormAlike ==
    /\ [](Answered /\ (IsJSONCreate(resp) \/ IsFormCreate(resp)) /\ ~resp.fault
            => StoredAsSubmitted(resp))
    /\ [][\A s \in Slots :
            (Inserts(s) /\ ~conn'[s].err) =>
                /\ conn'[s].newid > seq
                /\ \A n \in table : n.id < conn'[s].newid
                /\ conn'[s].added \subseteq table']_vars

\* C5 amended: the same, for a title and body of which at least one is
\* non-empty; with both empty or absent the JSON body is stored all the
\* same and the form body is refused with 400.
C5_JSONAndFormAlikeNonEmpty ==
    /\ [](Answered /\ (IsJSONCreate(resp) \/ IsFormCreate(resp)) /\ ~resp.fault
            => LET some == NonEmpty(resp.req.payload.title)
                                \/ NonEmpty(resp.req.payload.body)
               IN  /\ some => StoredAsSubmitted(resp)
                   /\ (~some /\ IsJSONCreate(resp)) => StoredAsSubmitted(resp)
                   /\ (~some /\ IsFormCreate(resp)) =>
                        (resp.out.status = 400 /\ resp.added = {}))
    /\ [][\A s \in Slots :
            (Inserts(s) /\ ~conn'[s].err) =>
                /\ conn'[s].newid > seq
                /\ \A n \in table : n.id < conn'[s].newid
                /\ conn'[s].added \subseteq table']_vars

\* A form create has been answered with the id of a row that holds the
\* same title and body as a row a JSON create stored before it.
C5_Witness ==
    /\ Answered /\ IsFormCreate(resp) /\ resp.out.status = 200
    /\ resp.req.payload.title = Present("T")
    /\ resp.req.payload.body = Present("B")
    /\ \E n \in table : \E m \in resp.added :
        /\ n.id < m.id
        /\ n.title = m.title
        /\ n.body = m.body
        /\ m \in table

\* C6: a list during which the store reported an error, on the query, on a
\* row's scan or on the iteration, is answered 500 with the error text.
C6_ListErrorIs500 ==
    (Answered /\ IsList(resp) /\ resp.fault) =>
        /\ resp.out.status = 500
        /\ resp.out.text = StoreErrText

\* C7: a create or delete answered 500 has inserted and removed no row, and
\* one answered with success has issued exactly one statement, an INSERT of
\* one row or a DELETE.
C7_AllOrNothing ==
    /\ [](Answered /\ (IsCreate(resp) \/ IsDelete(resp)) =>
            /\ resp.out.status = 500 =>
                    resp.fault /\ resp.added = {} /\ resp.removed = {}
            /\ resp.out.status \in {200, 204} =>
                    /\ ~resp.fault
                    /\ resp.stmts = 1
                    /\ IsCreate(resp) =>
                        Cardinality(resp.added) = 1 /\ resp.removed = {}
                    /\ IsDelete(resp) => resp.added = {})
    /\ [][\A s \in Slots :
            /\ (Inserts(s) /\ conn'[s].err) => table' = table
            /\ (Deletes(s) /\ resp'.fault) => table' = table
            /\ (Inserts(s) /\ ~conn'[s].err)
                    => (table' = table \cup conn'[s].added /\ table' # table)
            /\ (Deletes(s) /\ ~resp'.fault)
                    => table' = table \ resp'.removed]_vars

\* A create has been answered 500 after the store refused its INSERT, with
\* another note in the table.
C7_Witness ==
    /\ Answered /\ IsCreate(resp)
    /\ resp.out.status = 500
    /\ resp.stmts = 1
    /\ table # {}

\* C8: a DELETE with an empty id is answered 400, a method the route does
\* not serve 405, a path other than / on the root route 404; each has
\* issued no statement and the table is as it was.
C8_RejectedNeverReachStore ==
    /\ [](Answered =>
            /\ (resp.req.method = "DELETE" /\ resp.req.path = PatNoteByID)
                    => resp.out.status = 400
            /\ (resp.req.path = PatNotes /\ resp.req.method \notin {"GET", "POST"})
                    => resp.out.status = 405
            /\ (HasPrefix(resp.req.path, PatNoteByID) /\ resp.req.method # "DELETE")
                    => resp.out.status = 405
            /\ (resp.req.path # PatNotes /\ ~HasPrefix(resp.req.path, PatNoteByID)
                    /\ resp.req.path # PatRoot)
                    => resp.out.status = 404
            /\ resp.out.status \in {400, 404, 405} =>
                    resp.stmts = 0 /\ resp.added = {} /\ resp.removed = {})
    /\ [][(~Answered /\ Answered' /\ resp'.out.status \in {400, 404, 405})
            => (table' = table /\ seq' = seq)]_vars

\* A DELETE of /api/notes/ has been refused with notes in the table.
C8_Witness ==
    /\ Answered
    /\ resp.req.method = "DELETE"
    /\ resp.req.path = PatNoteByID
    /\ resp.out.status = 400
    /\ table # {}

UniqueIds == \A n \in table : \A m \in table : n.id = m.id => n = m

\* A row stays as it is until it is deleted.
RowsImmutable == \A n \in table : n \in table' \/ \A m \in table' : m.id # n.id

\* C9 as stated: ids are unique, every id returned by a create is greater
\* than every id returned before it, and a row never changes.
C9_IdsReturnedIncreasing ==
    /\ []UniqueIds
    /\ [][(~Answered /\ Answered' /\ resp'.out.kind = "object")
            => resp'.out.id > maxReturned]_vars
    /\ [][RowsImmutable]_vars

\* Every id handed out so far, in the table, held by a handler or
\* returned, is at most the sequence's last value.
IdsFromSeq ==
    /\ \A n \in table : n.id <= seq
    /\ \A s \in Slots : conn[s].newid <= seq
    /\ maxReturned <= seq

\* C9 amended: ids are unique, every id an INSERT assigns is greater than
\* every id assigned before it, a create returns the id of the row it
\* inserted, and a row never changes.
C9_IdsAssignedIncreasing ==
    /\ []UniqueIds
    /\ []IdsFromSeq
    /\ [](Answered /\ resp.out.kind = "object" =>
            \E n \in resp.added : n.id = resp.out.id)
    /\ [][\A s \in Slots :
            (Inserts(s) /\ ~conn'[s].err) =>
                /\ conn'[s].newid > seq
                /\ \A n \in table : n.id < conn'[s].newid]_vars
    /\ [][RowsImmutable]_vars

\* A create has returned a new id after the note with the id before it was
\* deleted.
C9_Witness ==
    /\ Answered /\ IsCreate(resp) /\ resp.out.kind = "object"
    /\ resp.out.id = 2
    /\ \A n \in table : n.id # 1
    /\ maxReturned >= 1

\* C10: with each statement atomic and the store reporting no error, a
\* DELETE removes the rows of its id and no other and is answered 204
\* whatever runs beside it; creates are given distinct ids and insert one
\* row each; a list returns the table as its query found it.
C10_Interleavings ==
    /\ [](Answered /\ IsDelete(resp) /\ ~resp.fault /\ resp.stmts = 1
            => resp.out.status = 204)
    /\ [](\A s \in Slots : \A t \in Slots :
            (s # t /\ conn[s].pc = "reply" /\ conn[t].pc = "reply"
                /\ conn[s].req.method = "POST" /\ conn[t].req.method = "POST"
                /\ ~conn[s].err /\ ~conn[t].err)
            => (conn[s].newid # conn[t].newid
                    /\ Cardinality(conn[s].added) = 1
                    /\ conn[s].added # conn[t].added))
    /\ [](Answered /\ IsList(resp) /\ ~resp.fault
            => Range(resp.out.notes) = resp.snap)
    /\ [][\A s \in Slots :
            /\ (Deletes(s) /\ ~resp'.fault) =>
                    table' = {n \in table : n.id # PgInt(conn[s].id).val}
            /\ (Inserts(s) /\ ~conn'[s].err) =>
                    (table \subseteq table' /\ Cardinality(table') = Cardinality(table) + 1)
            /\ (conn[s].pc = "query" /\ conn'[s].pc = "idle" /\ ~resp'.fault) =>
                    (resp'.snap = table /\ table' = table)]_vars

\* Of two DELETEs of the same id in flight together one has removed the
\* row and been answered 204 while the other has yet to run.
C10_Witness ==
    /\ Answered /\ IsDelete(resp) /\ ~resp.fault
    /\ resp.out.status = 204
    /\ resp.removed # {}
    /\ \E t \in Slots :
        /\ conn[t].pc = "exec"
        /\ PgInt(conn[t].id).val
            = PgInt(SubSeq(resp.req.path, Len(PatNoteByID) + 1, Len(resp.req.path))).val

====
